---- MODULE Spec2Model ----
(***************************************************************************)
(* A model of the feedforward neural network of src/src/FNN.hpp: network   *)
(* construction, feedforward, feedforward_complete, backpropagation and    *)
(* SGD_batch, over an explicit heap of matrix buffers.                     *)
(*                                                                         *)
(* Matrix.hpp is not among the source files.  The matrix operations are    *)
(* modelled from section 4.1 of the specification and from the way FNN.hpp *)
(* uses them: a Matrix is a handle (I, J, pointer); a copy made with the   *)
(* flag `true` owns a fresh buffer, any other copy or assignment shares    *)
(* the buffer; buffers are released only by free().                        *)
(*                                                                         *)
(* Scalars of type T are modelled as exact rationals extended with the     *)
(* three non-finite values of floating point (NaN, +Inf, -Inf).            *)
(***************************************************************************)
EXTENDS Integers, Sequences, FiniteSets, TLC

(***************************************************************************)
(* Scalars.  [n, d] with d > 0 is the rational n/d in lowest terms; d = 0  *)
(* marks a non-finite value: n = 0 is NaN, n = 1 is +Inf, n = -1 is -Inf.  *)
(***************************************************************************)
Abs(x) == IF x < 0 THEN -x ELSE x

Sign(x) == IF x < 0 THEN -1 ELSE IF x = 0 THEN 0 ELSE 1

RECURSIVE GCD(_, _)
GCD(a, b) == IF b = 0 THEN a ELSE GCD(b, a % b)

R(n, d) ==
    IF d = 0 THEN [n |-> Sign(n), d |-> 0]
    ELSE LET g == GCD(Abs(n), Abs(d))
         IN  [n |-> Sign(d) * (n \div g), d |-> Abs(d) \div g]

Zero == R(0, 1)

One == R(1, 1)

NaN == [n |-> 0, d |-> 0]

IsFinite(a) == a.d # 0

IsNaN(a) == a.d = 0 /\ a.n = 0

RNeg(a) == [n |-> -a.n, d |-> a.d]

RAdd(a, b) ==
    IF IsFinite(a) /\ IsFinite(b) THEN R(a.n * b.d + b.n * a.d, a.d * b.d)
    ELSE IF IsNaN(a) \/ IsNaN(b) THEN NaN
    ELSE IF ~IsFinite(a) /\ ~IsFinite(b) THEN (IF a.n = b.n THEN a ELSE NaN)
    ELSE IF IsFinite(a) THEN b ELSE a

RSub(a, b) == RAdd(a, RNeg(b))

RMul(a, b) ==
    IF IsFinite(a) /\ IsFinite(b) THEN R(a.n * b.n, a.d * b.d)
    ELSE IF IsNaN(a) \/ IsNaN(b) THEN NaN
    ELSE IF a.n = 0 \/ b.n = 0 THEN NaN
    ELSE [n |-> Sign(a.n) * Sign(b.n), d |-> 0]

RDiv(a, b) ==
    IF IsFinite(a) /\ IsFinite(b)
    THEN (IF b.n = 0 THEN [n |-> Sign(a.n), d |-> 0] ELSE R(a.n * b.d, a.d * b.n))
    ELSE IF IsNaN(a) \/ IsNaN(b) THEN NaN
    ELSE IF ~IsFinite(a) /\ ~IsFinite(b) THEN NaN
    ELSE IF IsFinite(a) THEN Zero
    ELSE [n |-> Sign(a.n) * (IF b.n < 0 THEN -1 ELSE 1), d |-> 0]

(***************************************************************************)
(* The logistic function 1/(1+e^-x) takes irrational values; it is         *)
(* modelled by a monotone step function with values strictly between 0     *)
(* and 1 and sigmoid(0) = 1/2.                                             *)
(***************************************************************************)
SigmoidValue(a) ==
    IF IsNaN(a) THEN NaN
    ELSE IF a.n < 0 THEN R(1, 4)
    ELSE IF a.n = 0 THEN R(1, 2)
    ELSE R(3, 4)

(***************************************************************************)
(* Let(e, LAMBDA x : body) is body with x standing for the value of e,     *)
(* which is computed once.                                                 *)
(***************************************************************************)
Let(e, F(_)) == CHOOSE r \in { F(v) : v \in {e} } : TRUE

(***************************************************************************)
(* Matrix contents: d[i][j] for i in 1..I, j in 1..J.                      *)
(***************************************************************************)
DConst(I, J, v) == [i \in 1..I |-> [j \in 1..J |-> v]]

DAdd(I, J, a, b) == [i \in 1..I |-> [j \in 1..J |-> RAdd(a[i][j], b[i][j])]]

DSub(I, J, a, b) == [i \in 1..I |-> [j \in 1..J |-> RSub(a[i][j], b[i][j])]]

DHadamard(I, J, a, b) == [i \in 1..I |-> [j \in 1..J |-> RMul(a[i][j], b[i][j])]]

DScale(I, J, a, s) == [i \in 1..I |-> [j \in 1..J |-> RMul(a[i][j], s)]]

DSigmoid(I, J, a) == [i \in 1..I |-> [j \in 1..J |-> SigmoidValue(a[i][j])]]

DTranspose(I, J, a) == [j \in 1..J |-> [i \in 1..I |-> a[i][j]]]

RECURSIVE DDot(_, _, _, _, _)
DDot(a, b, i, j, k) ==
    IF k = 0 THEN Zero
    ELSE Let(DDot(a, b, i, j, k - 1), LAMBDA s :
         Let(RMul(a[i][k], b[k][j]), LAMBDA t : RAdd(s, t)))

DProduct(I, K, J, a, b) == [i \in 1..I |-> [j \in 1..J |-> DDot(a, b, i, j, K)]]

(***************************************************************************)
(* The heap.  A buffer (cell) holds the contents of one matrix; `live`     *)
(* turns FALSE when it is released and `frees` counts its releases.  The   *)
(* log records, in program order, every allocation, read, write and        *)
(* release of the operation in progress.                                   *)
(***************************************************************************)
Cell(d) == [live |-> TRUE, frees |-> 0, d |-> d]

EmptyHeap == [c |-> <<>>, log |-> <<>>]

Log(H, op, p) == [H EXCEPT !.log = Append(@, <<op, p>>)]

Load(H, m) == H.c[m.p].d

Store(H, m, d) == [H EXCEPT !.c[m.p].d = d, !.log = Append(@, <<"write", m.p>>)]

Handle(I, J, p) == [I |-> I, J |-> J, p |-> p]

Alloc(H, I, J, d) ==
    Let(H, LAMBDA h :
        [H |-> [h EXCEPT !.c = Append(@, Cell(d)),
                         !.log = Append(@, <<"new", Len(h.c) + 1>>)],
         m |-> Handle(I, J, Len(h.c) + 1)])

(***************************************************************************)
(* Matrix operations (Matrix.hpp, modelled from the specification).        *)
(***************************************************************************)
\* Matrix(I, J): a zero-filled matrix in a fresh buffer.
MatrixNew(H, I, J) == Alloc(H, I, J, DConst(I, J, Zero))

\* Matrix(B, true): an owning copy in a fresh buffer.
MatrixDeepCopy(H, m) ==
    Let(H, LAMBDA h : Alloc(Log(h, "read", m.p), m.I, m.J, Load(h, m)))

\* Matrix(B), Matrix(B, false), operator=: a view sharing the buffer.
MatrixView(m) == m

fill(H, m, v) == Store(H, m, DConst(m.I, m.J, v))

free(H, m) ==
    [H EXCEPT !.c[m.p].live = FALSE, !.c[m.p].frees = @ + 1,
              !.log = Append(@, <<"free", m.p>>)]

\* a += b
op_add_assign(H, a, b) ==
    Let(H, LAMBDA h :
        Store(Log(Log(h, "read", b.p), "read", a.p), a,
              DAdd(a.I, a.J, Load(h, a), Load(h, b))))

\* a -= b
op_sub_assign(H, a, b) ==
    Let(H, LAMBDA h :
        Store(Log(Log(h, "read", b.p), "read", a.p), a,
              DSub(a.I, a.J, Load(h, a), Load(h, b))))

\* a *= s, s a scalar
op_scale_assign(H, a, s) ==
    Let(H, LAMBDA h :
        Store(Log(h, "read", a.p), a, DScale(a.I, a.J, Load(h, a), s)))

\* a *= b, the matrix product, in place: a becomes (a.I x b.J)
op_mul_assign(H, a, b) ==
    Let(H, LAMBDA h :
        [H |-> Store(Log(Log(h, "read", b.p), "read", a.p), a,
                     DProduct(a.I, a.J, b.J, Load(h, a), Load(h, b))),
         m |-> Handle(a.I, b.J, a.p)])

\* a * b, the matrix product, in a fresh buffer
op_mul(H, a, b) ==
    Let(H, LAMBDA h :
        Alloc(Log(Log(h, "read", a.p), "read", b.p), a.I, b.J,
              DProduct(a.I, a.J, b.J, Load(h, a), Load(h, b))))

self_transpose(H, a) ==
    Let(H, LAMBDA h :
        [H |-> Store(Log(h, "read", a.p), a, DTranspose(a.I, a.J, Load(h, a))),
         m |-> Handle(a.J, a.I, a.p)])

element_wise_product(H, a, b) ==
    Let(H, LAMBDA h :
        Store(Log(Log(h, "read", b.p), "read", a.p), a,
              DHadamard(a.I, a.J, Load(h, a), Load(h, b))))

sigmoid(H, a) ==
    Let(H, LAMBDA h :
        Store(Log(h, "read", a.p), a, DSigmoid(a.I, a.J, Load(h, a))))

SameShape(a, b) == a.I = b.I /\ a.J = b.J

(***************************************************************************)
(* The generator of random_init_values.  A default-constructed engine      *)
(* yields a fixed stream; the k-th value drawn (k = 0, 1, ...) through a   *)
(* normal distribution is a fixed function of k and of the distribution's  *)
(* parameters.  The real-valued draws are modelled by small rationals; the *)
(* weight distribution's deviation 1/sqrt(prev) by the scale 1/prev.       *)
(***************************************************************************)
gauss_biases(k) == R(((2 * k) % 3) - 1, 1)

gauss_weights(k, prev) ==
    LET v == (k + prev) % 3 IN R(IF v = 0 THEN -1 ELSE v, prev)

(***************************************************************************)
(* Bounds of the model and the inputs the operations are called with.      *)
(***************************************************************************)
\* SGD_batch is called at most MaxCalls times on one network.
MaxCalls == 2

\* The batch sequences handed to SGD_batch hold at most MaxBatch examples.
MaxBatch == 2

\* Layer-size lists handed to the constructor: well-formed ones, and the
\* empty list, single-element lists and lists with a zero size.
Topologies ==
    { <<2, 1>>, <<1, 2, 1>>, <<>>, <<1>>, <<1, 0>>, <<0, 1>> }

ValidTopology(sizes) == Len(sizes) >= 2 /\ \A i \in 1..Len(sizes) : sizes[i] > 0

InputVals == {One}

VARIABLES
    status,                     \* "none", "ok", or how the program ended
    layers,                     \* FNN::layers
    input,                      \* FNN::input (the input layer)
    nb_fully_connected_layers,  \* FNN::nb_fully_connected_layers
    fully_connected_layers,     \* FNN::fully_connected_layers
    heap,                       \* the matrix buffers
    pc,                         \* position of the operation in progress
    fr,                         \* its parameters and locals
    ret,                        \* what the last completed operation returned
    calls,                      \* SGD_batch calls made so far
    hist                        \* one record per SGD_batch call that returned

vars == <<status, layers, input, nb_fully_connected_layers,
          fully_connected_layers, heap, pc, fr, ret, calls, hist>>

NoFrame == [op |-> "none"]

NoReturn == [op |-> "none"]

NullMatrix == Handle(0, 0, 0)

(***************************************************************************)
(* Layers.                                                                 *)
(***************************************************************************)
FNNInputLayer(nb_nodes) == [nb_nodes |-> nb_nodes]

\* previous is 0 for the input layer, k for fully-connected layer k.
PreviousNodes(in, fcl, previous) ==
    IF previous = 0 THEN in.nb_nodes ELSE fcl[previous].nb_nodes

\* The layer with the two dimensions of W exchanged.
FNNFullyConnectedLayer_transposed(H, nb_nodes, previous, prev_nodes) ==
    Let(MatrixNew(H, prev_nodes, nb_nodes), LAMBDA w :
    Let(MatrixNew(w.H, nb_nodes, 1), LAMBDA b :
        [H |-> b.H,
         l |-> [nb_nodes |-> nb_nodes, previous |-> previous,
                W |-> w.m, B |-> b.m]]))

FNNFullyConnectedLayer(H, nb_nodes, previous, prev_nodes) ==
    Let(MatrixNew(H, nb_nodes, prev_nodes), LAMBDA w :
    Let(MatrixNew(w.H, nb_nodes, 1), LAMBDA b :
        [H |-> b.H,
         l |-> [nb_nodes |-> nb_nodes, previous |-> previous,
                W |-> w.m, B |-> b.m]]))

\* The value W(i, j) or B(i, 0) receives: row by row, the row's weights and
\* then the row's bias, from a generator created for this layer.
InitWeight(i, j, J, prev) == gauss_weights((i - 1) * (J + 1) + (j - 1), prev)

InitBias(i, J) == gauss_biases((i - 1) * (J + 1) + J)

\* The number of values drawn for the layers built before buffer p.
RECURSIVE Drawn(_, _)
Drawn(H, p) ==
    IF p <= 1 THEN 0
    ELSE Drawn(H, p - 1) + Len(H.c[p - 1].d) *
             (IF Len(H.c[p - 1].d) = 0 THEN 0 ELSE Len(H.c[p - 1].d[1]))

\* The initialisation with one generator for the whole network, which goes
\* on from layer to layer, not one created in each call.
random_init_values_member_generator(H, l, prev_nodes) ==
    Let(MatrixView(l.W), LAMBDA W :
    Let(MatrixView(l.B), LAMBDA B :
    Let(Drawn(H, W.p), LAMBDA k :
    Let(Store(H, W, [i \in 1..W.I |-> [j \in 1..W.J |->
                        gauss_weights(k + (i - 1) * (W.J + 1) + (j - 1),
                                      prev_nodes)]]), LAMBDA H1 :
        Store(H1, B, [i \in 1..W.I |-> [j \in 1..1 |->
                        gauss_biases(k + (i - 1) * (W.J + 1) + W.J)]])))))

random_init_values(H, l, prev_nodes) ==
    Let(MatrixView(l.W), LAMBDA W :
    Let(MatrixView(l.B), LAMBDA B :
    Let(Store(H, W, [i \in 1..W.I |-> [j \in 1..W.J |->
                        InitWeight(i, j, W.J, prev_nodes)]]), LAMBDA H1 :
        Store(H1, B, [i \in 1..W.I |-> [j \in 1..1 |-> InitBias(i, W.J)]]))))

RECURSIVE BuildLayers(_, _, _, _, _)
BuildLayers(H, in, fcl, sizes, i) ==
    IF i >= Len(sizes) - 1 THEN [H |-> H, fcl |-> fcl]
    ELSE Let(PreviousNodes(in, fcl, i), LAMBDA prev :
         Let(FNNFullyConnectedLayer(H, sizes[i + 2], i, prev), LAMBDA n :
         Let(random_init_values(n.H, n.l, prev), LAMBDA H1 :
             BuildLayers(H1, in, Append(fcl, n.l), sizes, i + 1))))

(***************************************************************************)
(* FNN::FNN(p_layers).  The code does not check p_layers: a single-element *)
(* list gives a network with no fully-connected layer, a zero size gives   *)
(* empty matrices.  With the empty list, p_layers[0] reads past the end of *)
(* an empty vector and the array of layers is asked for with length -1:    *)
(* undefined behaviour, which the model does not follow further.           *)
(***************************************************************************)
Construct(p_layers) ==
    /\ status = "none"
    /\ layers' = p_layers
    /\ IF Len(p_layers) = 0
       THEN /\ status' = "undefined"
            /\ UNCHANGED <<input, nb_fully_connected_layers,
                           fully_connected_layers, heap>>
       ELSE \E b \in {BuildLayers(EmptyHeap, FNNInputLayer(p_layers[1]), <<>>,
                                    p_layers, 0)} :
                /\ status' = "ok"
                /\ input' = FNNInputLayer(p_layers[1])
                /\ nb_fully_connected_layers' = Len(p_layers) - 1
                /\ fully_connected_layers' = b.fcl
                /\ heap' = [b.H EXCEPT !.log = <<>>]
    /\ UNCHANGED <<pc, fr, ret, calls, hist>>

(***************************************************************************)
(* Between two operations only the layers' buffers exist: W and B of layer *)
(* k (k = 1..nb) are buffers 2k-1 and 2k.  A caller's matrix is a buffer   *)
(* the operation did not create.                                           *)
(***************************************************************************)
Persistent(nb) == 2 * nb

AtRest(H, nb) == [c |-> SubSeq(H.c, 1, Persistent(nb)), log |-> <<>>]

CallerMatrix(H, I, J, d) ==
    Let(H, LAMBDA h :
        [H |-> [h EXCEPT !.c = Append(@, Cell(d))],
         m |-> Handle(I, J, Len(h.c) + 1)])

(***************************************************************************)
(* FNN::feedforward_complete.  Vector index k (0-based in the code) is     *)
(* k + 1 here.                                                             *)
(***************************************************************************)
\* The pass without the sigmoid.
feedforward_complete_layer_linear(H, layer, activations, i) ==
    Let(MatrixDeepCopy(H, layer.W), LAMBDA a :
    Let(op_mul_assign(a.H, a.m, activations[i + 1]), LAMBDA p :
    Let(op_add_assign(p.H, p.m, layer.B), LAMBDA H2 :
        [H |-> H2, activations |-> Append(activations, MatrixView(p.m))])))

\* Lines 356-361: one pass of the loop.
feedforward_complete_layer(H, layer, activations, i) ==
    Let(MatrixDeepCopy(H, layer.W), LAMBDA a :
    Let(op_mul_assign(a.H, a.m, activations[i + 1]), LAMBDA p :
    Let(op_add_assign(p.H, p.m, layer.B), LAMBDA H2 :
    Let(sigmoid(H2, p.m), LAMBDA H3 :
        [H |-> H3, activations |-> Append(activations, MatrixView(p.m))]))))

RECURSIVE feedforward_complete_loop(_, _, _, _)
feedforward_complete_loop(H, fcl, activations, i) ==
    IF i >= Len(fcl) THEN [H |-> H, activations |-> activations]
    ELSE Let(feedforward_complete_layer(H, fcl[i + 1], activations, i),
             LAMBDA r :
             feedforward_complete_loop(r.H, fcl, r.activations, i + 1))

feedforward_complete(H, fcl, X) ==
    feedforward_complete_loop(H, fcl, <<MatrixView(X)>>, 0)

(***************************************************************************)
(* FNN::feedforward                                                        *)
(***************************************************************************)
\* The pass with the product formed in W itself, through a view.
feedforward_layer_view(H, layer, activations, i) ==
    Let(op_mul_assign(H, MatrixView(layer.W), activations[i + 1]), LAMBDA p :
    Let(op_add_assign(p.H, p.m, layer.B), LAMBDA H2 :
    Let(sigmoid(H2, p.m), LAMBDA H3 :
    Let(IF i > 0 THEN free(H3, activations[i + 1]) ELSE H3, LAMBDA H4 :
        [H |-> H4, activations |-> Append(activations, MatrixView(p.m))]))))

\* The pass that releases the activation it read in the first pass too.
feedforward_layer_free_input(H, layer, activations, i) ==
    Let(MatrixDeepCopy(H, layer.W), LAMBDA a :
    Let(op_mul_assign(a.H, a.m, activations[i + 1]), LAMBDA p :
    Let(op_add_assign(p.H, p.m, layer.B), LAMBDA H2 :
    Let(sigmoid(H2, p.m), LAMBDA H3 :
    Let(IF i >= 0 THEN free(H3, activations[i + 1]) ELSE H3, LAMBDA H4 :
        [H |-> H4, activations |-> Append(activations, MatrixView(p.m))])))))

\* Lines 335-341: one pass of the loop.
feedforward_layer(H, layer, activations, i) ==
    Let(MatrixDeepCopy(H, layer.W), LAMBDA a :
    Let(op_mul_assign(a.H, a.m, activations[i + 1]), LAMBDA p :
    Let(op_add_assign(p.H, p.m, layer.B), LAMBDA H2 :
    Let(sigmoid(H2, p.m), LAMBDA H3 :
    Let(IF i > 0 THEN free(H3, activations[i + 1]) ELSE H3, LAMBDA H4 :
        [H |-> H4, activations |-> Append(activations, MatrixView(p.m))])))))

RECURSIVE feedforward_loop(_, _, _, _)
feedforward_loop(H, fcl, activations, i) ==
    IF i >= Len(fcl) THEN [H |-> H, activations |-> activations]
    ELSE Let(feedforward_layer(H, fcl[i + 1], activations, i), LAMBDA r :
             feedforward_loop(r.H, fcl, r.activations, i + 1))

feedforward(H, fcl, X) ==
    Let(feedforward_loop(H, fcl, <<MatrixView(X)>>, 0), LAMBDA r :
        [H |-> r.H, m |-> MatrixView(r.activations[Len(fcl) + 1])])

(***************************************************************************)
(* FNN::backpropagation_cross_entropy, for a network with at least one     *)
(* fully-connected layer and a training_output of the output's shape.      *)
(***************************************************************************)
\* The output layer with D stored as the weight gradient too.
backpropagation_output_delta(H, nb, activations, training_output) ==
    Let(MatrixDeepCopy(H, activations[nb + 1]), LAMBDA D :
    Let(MatrixDeepCopy(D.H, activations[nb]), LAMBDA At :
    Let(op_sub_assign(At.H, D.m, training_output), LAMBDA H1 :
    Let(self_transpose(H1, At.m), LAMBDA Att :
    Let(MatrixDeepCopy(Att.H, D.m), LAMBDA NCW :
    Let(op_mul_assign(NCW.H, NCW.m, Att.m), LAMBDA NCWp :
    Let(free(NCWp.H, Att.m), LAMBDA H2 :
    Let(free(H2, activations[nb + 1]), LAMBDA H3 :
        [H |-> H3, D |-> D.m,
         nabla_CW |-> [k \in 1..nb |-> IF k = nb THEN MatrixView(D.m)
                                                 ELSE NullMatrix],
         nabla_CB |-> [k \in 1..nb |-> IF k = nb THEN MatrixView(D.m)
                                                 ELSE NullMatrix]]))))))))

\* Lines 286-297: the output layer.
backpropagation_output(H, nb, activations, training_output) ==
    Let(MatrixDeepCopy(H, activations[nb + 1]), LAMBDA D :
    Let(MatrixDeepCopy(D.H, activations[nb]), LAMBDA At :
    Let(op_sub_assign(At.H, D.m, training_output), LAMBDA H1 :
    Let(self_transpose(H1, At.m), LAMBDA Att :
    Let(MatrixDeepCopy(Att.H, D.m), LAMBDA NCW :
    Let(op_mul_assign(NCW.H, NCW.m, Att.m), LAMBDA NCWp :
    Let(free(NCWp.H, Att.m), LAMBDA H2 :
    Let(free(H2, activations[nb + 1]), LAMBDA H3 :
        [H |-> H3, D |-> D.m,
         nabla_CW |-> [k \in 1..nb |-> IF k = nb THEN MatrixView(NCWp.m)
                                                 ELSE NullMatrix],
         nabla_CB |-> [k \in 1..nb |-> IF k = nb THEN MatrixView(D.m)
                                                 ELSE NullMatrix]]))))))))

\* The pass with the error multiplied by the activation only, not by
\* activation * (1 - activation).
backpropagation_layer_no_complement(H, fcl, activations, D, nabla_CW, nabla_CB, i) ==
    Let(MatrixDeepCopy(H, fcl[i + 2].W), LAMBDA Wt :
    Let(self_transpose(Wt.H, Wt.m), LAMBDA Wtt :
    Let(op_mul(Wtt.H, Wtt.m, D), LAMBDA Dn :
    Let(free(Dn.H, Wtt.m), LAMBDA H1 :
    Let(activations[i + 2], LAMBDA A :
    Let(MatrixNew(H1, A.I, 1), LAMBDA SP :
    Let(fill(SP.H, SP.m, One), LAMBDA H2 :
    Let(element_wise_product(H2, SP.m, A), LAMBDA H4 :
    Let(element_wise_product(H4, Dn.m, SP.m), LAMBDA H5 :
    Let(free(H5, SP.m), LAMBDA H6 :
    Let(MatrixDeepCopy(H6, activations[i + 1]), LAMBDA At :
    Let(self_transpose(At.H, At.m), LAMBDA Att :
    Let(MatrixDeepCopy(Att.H, Dn.m), LAMBDA NCW :
    Let(op_mul_assign(NCW.H, NCW.m, Att.m), LAMBDA NCWp :
    Let(free(NCWp.H, Att.m), LAMBDA H7 :
    Let(free(H7, activations[i + 2]), LAMBDA H8 :
        [H |-> H8, D |-> Dn.m,
         nabla_CW |-> [nabla_CW EXCEPT ![i + 1] = MatrixView(NCWp.m)],
         nabla_CB |-> [nabla_CB EXCEPT ![i + 1] = MatrixView(Dn.m)]]
    ))))))))))))))))

\* The pass with W transposed in place, through a view, not in a copy.
backpropagation_layer_view(H, fcl, activations, D, nabla_CW, nabla_CB, i) ==
    Let(self_transpose(H, MatrixView(fcl[i + 2].W)), LAMBDA Wtt :
    Let(op_mul(Wtt.H, Wtt.m, D), LAMBDA Dn :
    Let(free(Dn.H, Wtt.m), LAMBDA H1 :
    Let(activations[i + 2], LAMBDA A :
    Let(MatrixNew(H1, A.I, 1), LAMBDA SP :
    Let(fill(SP.H, SP.m, One), LAMBDA H2 :
    Let(op_sub_assign(H2, SP.m, A), LAMBDA H3 :
    Let(element_wise_product(H3, SP.m, A), LAMBDA H4 :
    Let(element_wise_product(H4, Dn.m, SP.m), LAMBDA H5 :
    Let(free(H5, SP.m), LAMBDA H6 :
    Let(MatrixDeepCopy(H6, activations[i + 1]), LAMBDA At :
    Let(self_transpose(At.H, At.m), LAMBDA Att :
    Let(MatrixDeepCopy(Att.H, Dn.m), LAMBDA NCW :
    Let(op_mul_assign(NCW.H, NCW.m, Att.m), LAMBDA NCWp :
    Let(free(NCWp.H, Att.m), LAMBDA H7 :
    Let(free(H7, activations[i + 2]), LAMBDA H8 :
        [H |-> H8, D |-> Dn.m,
         nabla_CW |-> [nabla_CW EXCEPT ![i + 1] = MatrixView(NCWp.m)],
         nabla_CB |-> [nabla_CB EXCEPT ![i + 1] = MatrixView(Dn.m)]]
    ))))))))))))))))

\* The pass that releases the activation it transposed, activations[i], not
\* the one of its own layer.
backpropagation_layer_free_previous(H, fcl, activations, D, nabla_CW, nabla_CB, i) ==
    Let(MatrixDeepCopy(H, fcl[i + 2].W), LAMBDA Wt :
    Let(self_transpose(Wt.H, Wt.m), LAMBDA Wtt :
    Let(op_mul(Wtt.H, Wtt.m, D), LAMBDA Dn :
    Let(free(Dn.H, Wtt.m), LAMBDA H1 :
    Let(activations[i + 2], LAMBDA A :
    Let(MatrixNew(H1, A.I, 1), LAMBDA SP :
    Let(fill(SP.H, SP.m, One), LAMBDA H2 :
    Let(op_sub_assign(H2, SP.m, A), LAMBDA H3 :
    Let(element_wise_product(H3, SP.m, A), LAMBDA H4 :
    Let(element_wise_product(H4, Dn.m, SP.m), LAMBDA H5 :
    Let(free(H5, SP.m), LAMBDA H6 :
    Let(MatrixDeepCopy(H6, activations[i + 1]), LAMBDA At :
    Let(self_transpose(At.H, At.m), LAMBDA Att :
    Let(MatrixDeepCopy(Att.H, Dn.m), LAMBDA NCW :
    Let(op_mul_assign(NCW.H, NCW.m, Att.m), LAMBDA NCWp :
    Let(free(NCWp.H, Att.m), LAMBDA H7 :
    Let(free(H7, activations[i + 1]), LAMBDA H8 :
        [H |-> H8, D |-> Dn.m,
         nabla_CW |-> [nabla_CW EXCEPT ![i + 1] = MatrixView(NCWp.m)],
         nabla_CB |-> [nabla_CB EXCEPT ![i + 1] = MatrixView(Dn.m)]]
    )))))))))))))))))

\* Lines 300-320: one pass of the loop, for the code's i.
backpropagation_layer(H, fcl, activations, D, nabla_CW, nabla_CB, i) ==
    Let(MatrixDeepCopy(H, fcl[i + 2].W), LAMBDA Wt :
    Let(self_transpose(Wt.H, Wt.m), LAMBDA Wtt :
    Let(op_mul(Wtt.H, Wtt.m, D), LAMBDA Dn :
    Let(free(Dn.H, Wtt.m), LAMBDA H1 :
    Let(activations[i + 2], LAMBDA A :
    Let(MatrixNew(H1, A.I, 1), LAMBDA SP :
    Let(fill(SP.H, SP.m, One), LAMBDA H2 :
    Let(op_sub_assign(H2, SP.m, A), LAMBDA H3 :
    Let(element_wise_product(H3, SP.m, A), LAMBDA H4 :
    Let(element_wise_product(H4, Dn.m, SP.m), LAMBDA H5 :
    Let(free(H5, SP.m), LAMBDA H6 :
    Let(MatrixDeepCopy(H6, activations[i + 1]), LAMBDA At :
    Let(self_transpose(At.H, At.m), LAMBDA Att :
    Let(MatrixDeepCopy(Att.H, Dn.m), LAMBDA NCW :
    Let(op_mul_assign(NCW.H, NCW.m, Att.m), LAMBDA NCWp :
    Let(free(NCWp.H, Att.m), LAMBDA H7 :
    Let(free(H7, activations[i + 2]), LAMBDA H8 :
        [H |-> H8, D |-> Dn.m,
         nabla_CW |-> [nabla_CW EXCEPT ![i + 1] = MatrixView(NCWp.m)],
         nabla_CB |-> [nabla_CB EXCEPT ![i + 1] = MatrixView(Dn.m)]]
    )))))))))))))))))

RECURSIVE backpropagation_loop(_, _, _, _)
backpropagation_loop(fcl, activations, s, i) ==
    IF i < 0 THEN [H |-> s.H, first |-> s.nabla_CW, second |-> s.nabla_CB]
    ELSE Let(backpropagation_layer(s.H, fcl, activations, s.D,
                                   s.nabla_CW, s.nabla_CB, i), LAMBDA r :
             backpropagation_loop(fcl, activations, r, i - 1))

backpropagation_cross_entropy(H, fcl, training_input, training_output) ==
    Let(feedforward_complete(H, fcl, training_input), LAMBDA ff :
    Let(backpropagation_output(ff.H, Len(fcl), ff.activations,
                               training_output), LAMBDA o :
        backpropagation_loop(fcl, ff.activations, o, Len(fcl) - 2)))

\* The input vectors the operations are called with: (n x 1), constant.
Inputs(n) == { DConst(n, 1, v) : v \in InputVals }

Idle == status = "ok" /\ pc = "idle"

Feedforward(x) ==
    /\ Idle
    /\ \E X \in {CallerMatrix(AtRest(heap, nb_fully_connected_layers),
                              input.nb_nodes, 1, x)} :
       \E r \in {feedforward(X.H, fully_connected_layers, X.m)} :
           /\ heap' = r.H
           /\ ret' = [op |-> "feedforward", X |-> X.m, out |-> r.m]
    /\ UNCHANGED <<status, layers, input, nb_fully_connected_layers,
                   fully_connected_layers, pc, fr, calls, hist>>

FeedforwardComplete(x) ==
    /\ Idle
    /\ \E X \in {CallerMatrix(AtRest(heap, nb_fully_connected_layers),
                              input.nb_nodes, 1, x)} :
       \E r \in {feedforward_complete(X.H, fully_connected_layers, X.m)} :
           /\ heap' = r.H
           /\ ret' = [op |-> "feedforward_complete", X |-> X.m,
                      out |-> r.activations]
    /\ UNCHANGED <<status, layers, input, nb_fully_connected_layers,
                   fully_connected_layers, pc, fr, calls, hist>>

(***************************************************************************)
(* FNN::SGD_batch, in steps: the creation of the sums (lines 390-395), one *)
(* backpropagation (line 398) and one accumulation (lines 399-402) per     *)
(* example, one update (lines 406-412) per layer, the return.              *)
(***************************************************************************)
\* Lines 392-395.
RECURSIVE sgd_create_nablas(_, _, _, _, _, _)
sgd_create_nablas(H, sizes, nb, nabla_CW, nabla_CB, i) ==
    IF i >= nb THEN [H |-> H, nabla_CW |-> nabla_CW, nabla_CB |-> nabla_CB]
    ELSE Let(MatrixNew(H, sizes[i + 2], sizes[i + 1]), LAMBDA w :
         Let(fill(w.H, w.m, Zero), LAMBDA H1 :
         Let(MatrixNew(H1, sizes[i + 2], 1), LAMBDA b :
         Let(fill(b.H, b.m, Zero), LAMBDA H2 :
             sgd_create_nablas(H2, sizes, nb, Append(nabla_CW, w.m),
                               Append(nabla_CB, b.m), i + 1)))))

\* The summation that does not release the bias gradients.
RECURSIVE sgd_accumulate_keep(_, _, _, _, _, _, _)
sgd_accumulate_keep(H, nb, nabla_CW, nabla_CB, first, second, j) ==
    IF j >= nb THEN H
    ELSE Let(op_add_assign(H, nabla_CW[j + 1], first[j + 1]), LAMBDA H1 :
         Let(free(H1, first[j + 1]), LAMBDA H2 :
         Let(op_add_assign(H2, nabla_CB[j + 1], second[j + 1]), LAMBDA H3 :
             sgd_accumulate_keep(H3, nb, nabla_CW, nabla_CB, first, second,
                                 j + 1))))

\* Lines 399-402.
RECURSIVE sgd_accumulate(_, _, _, _, _, _, _)
sgd_accumulate(H, nb, nabla_CW, nabla_CB, first, second, j) ==
    IF j >= nb THEN H
    ELSE Let(op_add_assign(H, nabla_CW[j + 1], first[j + 1]), LAMBDA H1 :
         Let(free(H1, first[j + 1]), LAMBDA H2 :
         Let(op_add_assign(H2, nabla_CB[j + 1], second[j + 1]), LAMBDA H3 :
         Let(free(H3, second[j + 1]), LAMBDA H4 :
             sgd_accumulate(H4, nb, nabla_CW, nabla_CB, first, second,
                            j + 1)))))

\* Lines 406-412, for one layer.
\* The update with the decay applied to the biases as to the weights.
sgd_update_layer_decay_bias(H, layer, nabla_CW, nabla_CB, training_set_len, batch_len, eta, alpha) ==
    Let(op_scale_assign(H, nabla_CW, RDiv(eta, R(batch_len, 1))), LAMBDA H1 :
    Let(op_scale_assign(H1, nabla_CB, RDiv(eta, R(batch_len, 1))), LAMBDA H2 :
    Let(op_scale_assign(H2, layer.W,
            RSub(One, RDiv(RMul(alpha, eta), R(training_set_len, 1)))),
        LAMBDA H3 :
    Let(op_scale_assign(H3, layer.B,
            RSub(One, RDiv(RMul(alpha, eta), R(training_set_len, 1)))),
        LAMBDA H3b :
    Let(op_sub_assign(H3b, layer.W, nabla_CW), LAMBDA H4 :
    Let(op_sub_assign(H4, layer.B, nabla_CB), LAMBDA H5 :
    Let(free(H5, nabla_CW), LAMBDA H6 :
        free(H6, nabla_CB))))))))

\* The update with the sums scaled by eta/training_set_len.
sgd_update_layer_set_len(H, layer, nabla_CW, nabla_CB, training_set_len, batch_len, eta, alpha) ==
    Let(op_scale_assign(H, nabla_CW, RDiv(eta, R(training_set_len, 1))),
        LAMBDA H1 :
    Let(op_scale_assign(H1, nabla_CB, RDiv(eta, R(training_set_len, 1))),
        LAMBDA H2 :
    Let(op_scale_assign(H2, layer.W,
            RSub(One, RDiv(RMul(alpha, eta), R(training_set_len, 1)))),
        LAMBDA H3 :
    Let(op_sub_assign(H3, layer.W, nabla_CW), LAMBDA H4 :
    Let(op_sub_assign(H4, layer.B, nabla_CB), LAMBDA H5 :
    Let(free(H5, nabla_CW), LAMBDA H6 :
        free(H6, nabla_CB)))))))

sgd_update_layer(H, layer, nabla_CW, nabla_CB, training_set_len, batch_len, eta, alpha) ==
    Let(op_scale_assign(H, nabla_CW, RDiv(eta, R(batch_len, 1))), LAMBDA H1 :
    Let(op_scale_assign(H1, nabla_CB, RDiv(eta, R(batch_len, 1))), LAMBDA H2 :
    Let(op_scale_assign(H2, layer.W,
            RSub(One, RDiv(RMul(alpha, eta), R(training_set_len, 1)))),
        LAMBDA H3 :
    Let(op_sub_assign(H3, layer.W, nabla_CW), LAMBDA H4 :
    Let(op_sub_assign(H4, layer.B, nabla_CB), LAMBDA H5 :
    Let(free(H5, nabla_CW), LAMBDA H6 :
        free(H6, nabla_CB)))))))

\* The caller's matrices of a batch: input i, then output i, for each i.
RECURSIVE CallerBatch(_, _, _, _, _)
CallerBatch(H, batch, bi, bo, i) ==
    IF i > Len(batch) THEN [H |-> H, batch_input |-> bi, batch_output |-> bo]
    ELSE Let(CallerMatrix(H, Len(batch[i].x), 1, batch[i].x), LAMBDA x :
         Let(CallerMatrix(x.H, Len(batch[i].y), 1, batch[i].y), LAMBDA y :
             CallerBatch(y.H, batch, Append(bi, x.m), Append(bo, y.m), i + 1)))

SGDCall(batch, training_set_len, batch_len, eta, alpha) ==
    /\ Idle
    /\ calls < MaxCalls
    /\ \E cb \in {CallerBatch(AtRest(heap, nb_fully_connected_layers), batch,
                              <<>>, <<>>, 1)} :
       \E n \in {sgd_create_nablas(cb.H, layers, nb_fully_connected_layers,
                                   <<>>, <<>>, 0)} :
           /\ heap' = n.H
           /\ fr' = [op |-> "SGD_batch",
                     batch_input |-> cb.batch_input,
                     batch_output |-> cb.batch_output,
                     training_set_len |-> training_set_len,
                     batch_len |-> batch_len,
                     eta |-> eta,
                     alpha |-> alpha,
                     nabla_CW |-> n.nabla_CW,
                     nabla_CB |-> n.nabla_CB,
                     i |-> 0,
                     delta_nabla |-> [first |-> <<>>, second |-> <<>>],
                     \* not program state: the parameters at the call, the
                     \* last buffer that is not the call's, the gradients
                     \* each backpropagation returned
                     old |-> SubSeq(heap.c, 1,
                                    Persistent(nb_fully_connected_layers)),
                     base |-> Len(cb.H.c),
                     deltas |-> <<>>]
    /\ pc' = "sgd_loop"
    /\ calls' = calls + 1
    /\ UNCHANGED <<status, layers, input, nb_fully_connected_layers,
                   fully_connected_layers, ret, hist>>

\* The buffers of the activations feedforward_complete returns for X: element
\* k + 1 is the buffer of activation k.
TraceBuffers(H, fcl, X) ==
    Let(feedforward_complete(H, fcl, X).activations, LAMBDA a :
        [k \in DOMAIN a |-> a[k].p])

\* The matrices of a vector of handles, as they are in the heap.
Contents(H, v) == [k \in DOMAIN v |-> Load(H, v[k])]

\* Line 398.  Reading batch_input[i] past the end of the vector, or
\* activations[-1] in a network without fully-connected layer, is undefined
\* behaviour: the model does not follow the program further.  A
\* training_output of another shape than the output stops the program in
\* the matrix subtraction (a shape mismatch is fatal).
SGDBackprop ==
    /\ status = "ok"
    /\ pc = "sgd_loop"
    /\ fr.i < fr.batch_len
    /\ IF fr.i >= Len(fr.batch_input) \/ nb_fully_connected_layers = 0
       THEN /\ status' = "undefined"
            /\ UNCHANGED <<heap, fr, pc>>
       ELSE IF ~SameShape(fr.batch_output[fr.i + 1],
                          fully_connected_layers[nb_fully_connected_layers].B)
            THEN \E ff \in {feedforward_complete(heap, fully_connected_layers,
                                                 fr.batch_input[fr.i + 1])} :
                 \E D \in {MatrixDeepCopy(ff.H,
                              ff.activations[nb_fully_connected_layers + 1])} :
                 \E At \in {MatrixDeepCopy(D.H,
                              ff.activations[nb_fully_connected_layers])} :
                     /\ status' = "ShapeMismatch"
                     /\ heap' = At.H
                     /\ UNCHANGED <<fr, pc>>
            ELSE \E r \in {backpropagation_cross_entropy(
                              heap, fully_connected_layers,
                              fr.batch_input[fr.i + 1],
                              fr.batch_output[fr.i + 1])} :
                     /\ heap' = r.H
                     /\ fr' = [fr EXCEPT
                                 !.delta_nabla = [first |-> r.first,
                                                  second |-> r.second],
                                 !.deltas = Append(@,
                                     [x |-> fr.batch_input[fr.i + 1],
                                      y |-> fr.batch_output[fr.i + 1],
                                      first |-> Contents(r.H, r.first),
                                      second |-> Contents(r.H, r.second),
                                      p |-> {r.first[k].p : k \in DOMAIN r.first}
                                            \cup {r.second[k].p : k \in DOMAIN r.second},
                                      \* the buffers of the activation
                                      \* trace and the length of the log
                                      \* when line 398 starts
                                      activations |-> TraceBuffers(heap,
                                          fully_connected_layers,
                                          fr.batch_input[fr.i + 1]),
                                      from |-> Len(heap.log),
                                      params |-> SubSeq(heap.c, 1,
                                          Persistent(nb_fully_connected_layers))])]
                     /\ pc' = "sgd_sum"
                     /\ UNCHANGED status
    /\ UNCHANGED <<layers, input, nb_fully_connected_layers,
                   fully_connected_layers, ret, calls, hist>>

\* The end of the loop body with i advanced by two.
SGDAccumulate_skip ==
    /\ status = "ok"
    /\ pc = "sgd_sum"
    /\ heap' = sgd_accumulate(heap, nb_fully_connected_layers,
                              fr.nabla_CW, fr.nabla_CB,
                              fr.delta_nabla.first, fr.delta_nabla.second, 0)
    /\ fr' = [fr EXCEPT !.i = @ + 2]
    /\ pc' = "sgd_loop"
    /\ UNCHANGED <<status, layers, input, nb_fully_connected_layers,
                   fully_connected_layers, ret, calls, hist>>

SGDAccumulate ==
    /\ status = "ok"
    /\ pc = "sgd_sum"
    /\ heap' = sgd_accumulate(heap, nb_fully_connected_layers,
                              fr.nabla_CW, fr.nabla_CB,
                              fr.delta_nabla.first, fr.delta_nabla.second, 0)
    /\ fr' = [fr EXCEPT !.i = @ + 1]
    /\ pc' = "sgd_loop"
    /\ UNCHANGED <<status, layers, input, nb_fully_connected_layers,
                   fully_connected_layers, ret, calls, hist>>

\* Line 397 leaves the loop; line 405 starts the next one.
SGDEndLoop ==
    /\ status = "ok"
    /\ pc = "sgd_loop"
    /\ fr.i >= fr.batch_len
    /\ fr' = [fr EXCEPT !.i = 0]
    /\ pc' = "sgd_update"
    /\ UNCHANGED <<status, layers, input, nb_fully_connected_layers,
                   fully_connected_layers, heap, ret, calls, hist>>

SGDUpdate ==
    /\ status = "ok"
    /\ pc = "sgd_update"
    /\ fr.i < nb_fully_connected_layers
    /\ heap' = sgd_update_layer(heap, fully_connected_layers[fr.i + 1],
                                fr.nabla_CW[fr.i + 1], fr.nabla_CB[fr.i + 1],
                                fr.training_set_len, fr.batch_len,
                                fr.eta, fr.alpha)
    /\ fr' = [fr EXCEPT !.i = @ + 1]
    /\ UNCHANGED <<status, layers, input, nb_fully_connected_layers,
                   fully_connected_layers, pc, ret, calls, hist>>

\* What hist keeps of a call: the parameters it started from, its alpha, eta
\* and training_set_len, and whether it ran on at least one example and
\* every gradient of every example was zero.
IsZeroMatrix(d) == \A i \in DOMAIN d : \A j \in DOMAIN d[i] : d[i][j] = Zero

CallSummary(f) ==
    [old  |-> f.old,
     alpha |-> f.alpha,
     eta  |-> f.eta,
     training_set_len |-> f.training_set_len,
     zero |-> /\ f.batch_len >= 1
              /\ Len(f.deltas) = f.batch_len
              /\ \A e \in DOMAIN f.deltas :
                     /\ \A k \in DOMAIN f.deltas[e].first :
                            IsZeroMatrix(f.deltas[e].first[k])
                     /\ \A k \in DOMAIN f.deltas[e].second :
                            IsZeroMatrix(f.deltas[e].second[k])]

\* Line 414.
SGDReturn ==
    /\ status = "ok"
    /\ pc = "sgd_update"
    /\ fr.i >= nb_fully_connected_layers
    /\ pc' = "idle"
    /\ ret' = fr
    /\ fr' = NoFrame
    /\ hist' = Append(hist, CallSummary(fr))
    /\ UNCHANGED <<status, layers, input, nb_fully_connected_layers,
                   fully_connected_layers, heap, calls>>

(***************************************************************************)
(* The training examples SGD_batch is called with: an input of the input   *)
(* layer's size and, as expected output, a one-hot vector of the output    *)
(* layer's size, the network's present output for that input (the example  *)
(* of a zero gradient), or a vector one element too long.                  *)
(***************************************************************************)
OutputNodes == IF Len(layers) = 0 THEN 0 ELSE layers[Len(layers)]

OneHot(n, k) == [i \in 1..n |-> [j \in 1..1 |-> IF i = k THEN One ELSE Zero]]

ActualOutput(x) ==
    Let(CallerMatrix(AtRest(heap, nb_fully_connected_layers),
                     input.nb_nodes, 1, x), LAMBDA X :
    Let(feedforward(X.H, fully_connected_layers, X.m), LAMBDA r :
        Load(r.H, r.m)))

Outputs(x) ==
    { OneHot(OutputNodes, k) : k \in 1..OutputNodes }
        \cup { ActualOutput(x), DConst(OutputNodes + 1, 1, Zero) }

Examples ==
    UNION { { [x |-> x, y |-> y] : y \in Outputs(x) } : x \in Inputs(input.nb_nodes) }

Batches == UNION { [1..n -> Examples] : n \in 0..MaxBatch }

BatchLens == (-1)..(MaxBatch + 1)

TrainingSetLens == {2}

Etas == {R(1, 2)}

Alphas == {Zero, One}

Init ==
    /\ status = "none"
    /\ layers = <<>>
    /\ input = FNNInputLayer(0)
    /\ nb_fully_connected_layers = 0
    /\ fully_connected_layers = <<>>
    /\ heap = EmptyHeap
    /\ pc = "idle"
    /\ fr = NoFrame
    /\ ret = NoReturn
    /\ calls = 0
    /\ hist = <<>>

Next ==
    \/ \E p_layers \in Topologies : Construct(p_layers)
    \/ \E x \in Inputs(input.nb_nodes) : Feedforward(x)
    \/ \E x \in Inputs(input.nb_nodes) : FeedforwardComplete(x)
    \/ \E batch \in Batches, training_set_len \in TrainingSetLens,
          batch_len \in BatchLens, eta \in Etas, alpha \in Alphas :
          SGDCall(batch, training_set_len, batch_len, eta, alpha)
    \/ SGDBackprop
    \/ SGDAccumulate
    \/ SGDEndLoop
    \/ SGDUpdate
    \/ SGDReturn

Spec == Init /\ [][Next]_vars

(***************************************************************************)
(* DigitScanner::save and DigitScanner::load (src/DigitScanner.hpp).  The  *)
(* file is the sequence of the fields written, in the order written.  An   *)
(* integer is written and read back as it is.  A value of type T is        *)
(* written by operator<< of a stream in its default state: in decimal,     *)
(* rounded to Precision significant digits; operator>> reads the decimal   *)
(* back.  A value that is not finite is written as text operator>> does    *)
(* not accept: the extraction fails, stores zero, and every later          *)
(* extraction from the stream does nothing.                                *)
(***************************************************************************)
\* Significant digits written by operator<< for a floating-point value.
Precision == 6

RECURSIVE Pow10(_)
Pow10(k) == IF k = 0 THEN 1 ELSE 10 * Pow10(k - 1)

\* The e with 10^e <= n/d < 10^(e+1), for n > 0 and d > 0.
RECURSIVE Exp10(_, _)
Exp10(n, d) ==
    IF n >= 10 * d THEN Exp10(n, 10 * d) + 1
    ELSE IF n < d THEN Exp10(10 * n, d) - 1
    ELSE 0

\* The first k digits of n/d, as one integer, and what remains, for
\* d <= n < 10*d: digit by digit.
RECURSIVE Digits(_, _, _, _)
Digits(n, d, k, m) ==
    IF k = 0 THEN [m |-> m, r |-> n, d |-> d]
    ELSE Digits(10 * (n % d), d, k - 1, 10 * m + (n \div d))

\* operator<<(T): the decimal of Precision significant digits nearest to a,
\* a tie going to the even digit.
Format(a) ==
    IF ~IsFinite(a) \/ a.n = 0 THEN a
    ELSE Let(Exp10(Abs(a.n), a.d), LAMBDA e :
         Let(Digits(IF e < 0 THEN Abs(a.n) * Pow10(-e) ELSE Abs(a.n),
                    IF e > 0 THEN a.d * Pow10(e) ELSE a.d,
                    Precision, 0), LAMBDA q :
         Let(IF q.r > 5 * q.d \/ (q.r = 5 * q.d /\ q.m % 2 = 1)
             THEN q.m + 1 ELSE q.m, LAMBDA m :
             IF e >= Precision - 1
             THEN R(Sign(a.n) * m * Pow10(e - (Precision - 1)), 1)
             ELSE R(Sign(a.n) * m, Pow10((Precision - 1) - e)))))

\* Lines 85-95: the fields of one layer, W row by row, then B.
save_layer(H, layer) ==
    Let(Load(H, layer.W), LAMBDA w :
    Let(Load(H, layer.B), LAMBDA b :
        [t \in 1..(layer.W.I * layer.W.J) |->
            Format(w[((t - 1) \div layer.W.J) + 1][((t - 1) % layer.W.J) + 1])]
        \o [t \in 1..layer.B.I |-> Format(b[t][1])]))

RECURSIVE save_layers(_, _, _, _)
save_layers(H, fcl, file, i) ==
    IF i >= Len(fcl) THEN file
    ELSE save_layers(H, fcl, file \o save_layer(H, fcl[i + 1]), i + 1)

\* Lines 71-98.
save(H, sizes, fcl) ==
    save_layers(H, fcl, <<Len(fcl) + 1>> \o [i \in 1..(Len(fcl) + 1) |-> sizes[i]], 0)

\* The stream being read: the next field and whether an extraction failed.
\* operator>>(T&) at s, into a variable holding cur.
Extract(file, s, cur) ==
    IF s.fail THEN [v |-> cur, s |-> s]
    ELSE IF s.pos > Len(file) \/ ~IsFinite(file[s.pos])
    THEN [v |-> Zero, s |-> [pos |-> s.pos, fail |-> TRUE]]
    ELSE [v |-> file[s.pos], s |-> [pos |-> s.pos + 1, fail |-> FALSE]]

\* Lines 55-59 and 61-63: the n entries of the (I x J) matrix d from entry
\* t on, row by row.
RECURSIVE load_entries(_, _, _, _, _, _)
load_entries(file, s, d, J, t, n) ==
    IF t > n THEN [d |-> d, s |-> s]
    ELSE Let(((t - 1) \div J) + 1, LAMBDA i :
         Let(((t - 1) % J) + 1, LAMBDA j :
         Let(Extract(file, s, d[i][j]), LAMBDA x :
             load_entries(file, x.s, [d EXCEPT ![i][j] = x.v], J, t + 1, n))))

\* Lines 50-64.
RECURSIVE load_layers(_, _, _, _, _)
load_layers(H, fcl, file, s, i) ==
    IF i >= Len(fcl) THEN H
    ELSE Let(fcl[i + 1].W, LAMBDA W :
         Let(fcl[i + 1].B, LAMBDA B :
         Let(load_entries(file, s, Load(H, W), W.J, 1, W.I * W.J), LAMBDA w :
         Let(load_entries(file, w.s, Load(H, B), 1, 1, B.I), LAMBDA b :
             load_layers(Store(Store(H, W, w.d), B, b.d), fcl, file, b.s,
                         i + 1)))))

\* Lines 44-48: the layer sizes read and the network constructed from them;
\* lines 50-64: its weights and biases read.
load(file) ==
    Let(file[1], LAMBDA nb_layers :
    Let([i \in 1..nb_layers |-> file[i + 1]], LAMBDA nb_nodes :
    Let(BuildLayers(EmptyHeap, FNNInputLayer(nb_nodes[1]), <<>>, nb_nodes, 0),
        LAMBDA b :
        [nb_nodes |-> nb_nodes,
         fcl |-> b.fcl,
         H |-> load_layers(b.H, b.fcl, file,
                           [pos |-> nb_layers + 2, fail |-> FALSE], 0)])))

DigitScannerSave ==
    /\ Idle
    /\ ret.op # "save"
    /\ ret' = [op |-> "save",
               file |-> save(heap, layers, fully_connected_layers)]
    /\ UNCHANGED <<status, layers, input, nb_fully_connected_layers,
                   fully_connected_layers, heap, pc, fr, calls, hist>>

\* load of the file save has just written.  The model follows the program
\* up to the end of load: pc = "loaded".  ret keeps, beside the file, the
\* layer sizes and the buffers of W and B the file was written from.
DigitScannerLoad ==
    /\ Idle
    /\ ret.op = "save"
    /\ \E n \in {load(ret.file)} :
           /\ layers' = n.nb_nodes
           /\ input' = FNNInputLayer(n.nb_nodes[1])
           /\ nb_fully_connected_layers' = Len(n.nb_nodes) - 1
           /\ fully_connected_layers' = n.fcl
           /\ heap' = [n.H EXCEPT !.log = <<>>]
    /\ ret' = [op |-> "load", file |-> ret.file, layers |-> layers,
               saved |-> SubSeq(heap.c, 1,
                                Persistent(nb_fully_connected_layers))]
    /\ pc' = "loaded"
    /\ UNCHANGED <<status, fr, calls, hist>>

NextPersistence ==
    \/ \E p_layers \in Topologies : Construct(p_layers)
    \/ /\ Idle
       /\ \E batch \in Batches, training_set_len \in TrainingSetLens,
             batch_len \in BatchLens, eta \in Etas, alpha \in Alphas :
             SGDCall(batch, training_set_len, batch_len, eta, alpha)
    \/ SGDBackprop
    \/ SGDAccumulate
    \/ SGDEndLoop
    \/ SGDUpdate
    \/ SGDReturn
    \/ DigitScannerSave
    \/ DigitScannerLoad

SpecPersistence == Init /\ [][NextPersistence]_vars

(***************************************************************************)
(* The operations on deeper networks, for the properties about the order   *)
(* of allocations and releases inside one call: three fully-connected      *)
(* layers make two intermediate activations in feedforward and two passes  *)
(* of the backward loop.  One SGD_batch call per network.                  *)
(***************************************************************************)
DeepTopologies == { <<1, 1, 1, 1>>, <<1, 2, 1>>, <<2, 1>>, <<1>> }

NextMemory ==
    \/ \E p_layers \in DeepTopologies : Construct(p_layers)
    \/ \E x \in Inputs(input.nb_nodes) : Feedforward(x)
    \/ \E x \in Inputs(input.nb_nodes) : FeedforwardComplete(x)
    \/ /\ Idle
       /\ calls = 0
       /\ \E batch \in Batches, training_set_len \in TrainingSetLens,
             batch_len \in BatchLens, eta \in Etas, alpha \in Alphas :
             SGDCall(batch, training_set_len, batch_len, eta, alpha)
    \/ SGDBackprop
    \/ SGDAccumulate
    \/ SGDEndLoop
    \/ SGDUpdate
    \/ SGDReturn

SpecMemory == Init /\ [][NextMemory]_vars

(***************************************************************************)
(* Two networks in one program: the first is the model's network, the      *)
(* second, built by another call of the constructor, is kept with its own  *)
(* buffers as the value that call returned.  No operation is run on either *)
(* of them, so both hold their initial weights and biases.                 *)
(***************************************************************************)
MaxLayers == 3

LayerSizes == {1, 2}

ConstructionTopologies == UNION { [1..n -> LayerSizes] : n \in 1..MaxLayers }

ConstructSecond(p_layers) ==
    /\ Idle
    /\ ret.op = "none"
    /\ \E b \in {BuildLayers(EmptyHeap, FNNInputLayer(p_layers[1]), <<>>,
                              p_layers, 0)} :
           ret' = [op |-> "FNN",
                   layers |-> p_layers,
                   input |-> FNNInputLayer(p_layers[1]),
                   nb_fully_connected_layers |-> Len(p_layers) - 1,
                   fully_connected_layers |-> b.fcl,
                   heap |-> [b.H EXCEPT !.log = <<>>]]
    /\ UNCHANGED <<status, layers, input, nb_fully_connected_layers,
                   fully_connected_layers, heap, pc, fr, calls, hist>>

NextConstruction ==
    \/ \E p_layers \in ConstructionTopologies : Construct(p_layers)
    \/ \E p_layers \in ConstructionTopologies : ConstructSecond(p_layers)

SpecConstruction == Init /\ [][NextConstruction]_vars

(***************************************************************************)
(* Properties.                                                             *)
(***************************************************************************)
\* The buffers of W and B of every layer, as the heap holds them.
Params == SubSeq(heap.c, 1, Persistent(nb_fully_connected_layers))

\* The buffer of m exists, is not released, and holds m.I rows of m.J values.
HasShape(H, m) ==
    /\ m.p \in 1..Len(H.c)
    /\ H.c[m.p].live
    /\ DOMAIN Load(H, m) = 1..m.I
    /\ \A i \in 1..m.I : DOMAIN Load(H, m)[i] = 1..m.J

\* C1: in every state of a constructed network there is one fully-connected
\* layer per pair of consecutive sizes, and layer k (0-based) has a weight
\* matrix of layers[k+1] rows and layers[k] columns and a bias matrix of
\* layers[k+1] rows and one column, each in a live buffer of that shape.
C1_ShapeInvariant ==
    status = "ok" =>
        /\ nb_fully_connected_layers = Len(layers) - 1
        /\ Len(fully_connected_layers) = nb_fully_connected_layers
        /\ \A k \in 1..nb_fully_connected_layers :
              /\ fully_connected_layers[k].W.I = layers[k + 1]
              /\ fully_connected_layers[k].W.J = layers[k]
              /\ fully_connected_layers[k].B.I = layers[k + 1]
              /\ fully_connected_layers[k].B.J = 1
              /\ HasShape(heap, fully_connected_layers[k].W)
              /\ HasShape(heap, fully_connected_layers[k].B)

\* A two-layer network after two SGD_batch calls that changed its weights.
C1_Witness ==
    /\ status = "ok"
    /\ pc = "idle"
    /\ layers = <<1, 2, 1>>
    /\ Len(hist) = 2
    /\ Params # hist[1].old
    /\ Params # hist[2].old
    /\ fully_connected_layers[1].W.I = 2
    /\ fully_connected_layers[2].W.J = 2

\* The sum of the first n matrices of g, from a zero (I x J) matrix.
RECURSIVE GradientSum(_, _, _, _)
GradientSum(I, J, g, n) ==
    IF n = 0 THEN DConst(I, J, Zero)
    ELSE Let(GradientSum(I, J, g, n - 1), LAMBDA s : DAdd(I, J, s, g[n]))

\* SGD_batch returned and nothing has run since.
Returned == status = "ok" /\ pc = "idle" /\ ret.op = "SGD_batch"

DecayFactor(f) ==
    RSub(One, RDiv(RMul(f.alpha, f.eta), R(f.training_set_len, 1)))

StepSize(f) == RDiv(f.eta, R(f.batch_len, 1))

\* C2: when SGD_batch returns from a batch of b >= 1 examples, every
\* example's gradients were computed on its own input and expected output
\* against the parameters of before the call, and for every layer
\* W = W_old * (1 - alpha*eta/N) - (eta/b) * (sum of the weight gradients) and
\* B = B_old - (eta/b) * (sum of the bias gradients), the sums taken in batch
\* order from zero.
C2_UpdateRule ==
    (Returned /\ ret.batch_len >= 1) =>
        /\ Len(ret.deltas) = ret.batch_len
        /\ \A e \in 1..ret.batch_len :
              /\ ret.deltas[e].params = ret.old
              /\ ret.deltas[e].x = ret.batch_input[e]
              /\ ret.deltas[e].y = ret.batch_output[e]
        /\ \A k \in 1..nb_fully_connected_layers :
              LET W == fully_connected_layers[k].W
                  B == fully_connected_layers[k].B
                  SW == GradientSum(W.I, W.J,
                            [e \in 1..ret.batch_len |-> ret.deltas[e].first[k]],
                            ret.batch_len)
                  SB == GradientSum(B.I, B.J,
                            [e \in 1..ret.batch_len |-> ret.deltas[e].second[k]],
                            ret.batch_len)
              IN  /\ Load(heap, W) =
                        DSub(W.I, W.J,
                             DScale(W.I, W.J, ret.old[W.p].d, DecayFactor(ret)),
                             DScale(W.I, W.J, SW, StepSize(ret)))
                  /\ Load(heap, B) =
                        DSub(B.I, B.J, ret.old[B.p].d,
                             DScale(B.I, B.J, SB, StepSize(ret)))

\* A call on two examples of different gradients, with weight decay, in a
\* two-layer network, returned.
C2_Witness ==
    /\ Returned
    /\ layers = <<1, 2, 1>>
    /\ ret.batch_len = 2
    /\ ret.alpha = One
    /\ ret.deltas[1].first # ret.deltas[2].first
    /\ ~IsZeroMatrix(ret.deltas[1].first[1])
    /\ ~IsZeroMatrix(ret.deltas[1].second[2])
    /\ Params # ret.old

\* The positions in the log of H of the writes to, and releases of, the
\* buffers of W and B.
ParamWrites(H) ==
    { n \in DOMAIN H.log :
        /\ H.log[n][1] \in {"write", "free"}
        /\ H.log[n][2] <= Persistent(nb_fully_connected_layers) }

\* The positions in the log of H of the accesses to the buffers of the
\* gradients the backpropagations of the call f returned.
GradientAccesses(H, f) ==
    { n \in DOMAIN H.log :
        \E e \in DOMAIN f.deltas : H.log[n][2] \in f.deltas[e].p }

\* C3: within one SGD_batch call, as long as examples remain to be
\* backpropagated or summed no buffer of W or B has been written, every
\* backpropagation so far read the parameters of before the call, and once
\* the parameters are being updated every example has been backpropagated
\* and every write to W or B comes after the last access to an example's
\* gradients.
C3_NoEarlyWrite ==
    (status = "ok" /\ fr.op = "SGD_batch") =>
        /\ \A e \in DOMAIN fr.deltas : fr.deltas[e].params = fr.old
        /\ pc \in {"sgd_loop", "sgd_sum"} =>
              /\ ParamWrites(heap) = {}
              /\ Params = fr.old
        /\ pc = "sgd_update" =>
              /\ Len(fr.deltas) = (IF fr.batch_len < 0 THEN 0 ELSE fr.batch_len)
              /\ \A n \in ParamWrites(heap) :
                    \A g \in GradientAccesses(heap, fr) : g < n

\* The second layer of a two-layer network is being updated after the
\* first, at the end of a call on two examples.
C3_Witness ==
    /\ status = "ok"
    /\ fr.op = "SGD_batch"
    /\ pc = "sgd_update"
    /\ layers = <<1, 2, 1>>
    /\ fr.i = 1
    /\ Len(fr.deltas) = 2
    /\ ParamWrites(heap) # {}
    /\ GradientAccesses(heap, fr) # {}
    /\ Params # fr.old

\* C4: a layer-size list with fewer than two elements or with a size that
\* is not positive is rejected by the constructor: whenever construction
\* ran to an end on such a list, it ended with InvalidTopology.
C4_ConstructorValidates ==
    (status \notin {"none", "undefined"} /\ ~ValidTopology(layers)) =>
        status = "InvalidTopology"

\* The call f was made with a batch_len below 1 or with an example, among
\* those it is to process, that has not the network's input or output shape.
InvalidTrainingInput(f) ==
    \/ f.batch_len < 1
    \/ \E e \in 1..f.batch_len :
          /\ e <= Len(f.batch_input)
          /\ \/ f.batch_input[e].I # layers[1]
             \/ f.batch_input[e].J # 1
             \/ f.batch_output[e].I # layers[Len(layers)]
             \/ f.batch_output[e].J # 1

\* C5: on a network of a well-formed topology, an SGD_batch call with a
\* batch_len below 1 or with an example of another shape than the network's
\* input and output fails: it never returns as a call that succeeded, and W
\* and B stay what they were.
C5_ValidatesTrainingInput ==
    ValidTopology(layers) =>
        /\ ~(Returned /\ InvalidTrainingInput(ret))
        /\ (status \in {"ok", "ShapeMismatch"} /\ fr.op = "SGD_batch"
              /\ InvalidTrainingInput(fr)) => Params = fr.old

\* C6: a feedforward or feedforward_complete call leaves every layer's W
\* and B as they were, in contents, shape and buffer: it writes to no buffer
\* of W or B and releases none.
C6_ForwardReadOnly ==
    [][ (status = "ok" /\ pc = "idle" /\ pc' = "idle"
           /\ ret'.op \in {"feedforward", "feedforward_complete"})
        => /\ SubSeq(heap'.c, 1, Persistent(nb_fully_connected_layers))
                = Params
           /\ fully_connected_layers' = fully_connected_layers
           /\ ParamWrites(heap') = {} ]_vars

\* feedforward returned on a two-layer network that was trained before.
C6_Witness ==
    /\ status = "ok"
    /\ pc = "idle"
    /\ ret.op = "feedforward"
    /\ layers = <<1, 2, 1>>
    /\ Len(hist) >= 1
    /\ Params # hist[1].old
    /\ Len(heap.log) > 0

\* C7: feedforward_complete returns nb_fully_connected_layers + 1 matrices;
\* the first is the input itself, entry i is sigmoid(W[i-1] * entry[i-1] +
\* B[i-1]), and the last holds what feedforward returns for the same input
\* and parameters.
C7_ActivationTrace ==
    (status = "ok" /\ pc = "idle" /\ ret.op = "feedforward_complete") =>
        /\ Len(ret.out) = nb_fully_connected_layers + 1
        /\ ret.out[1] = ret.X
        /\ \A i \in 1..nb_fully_connected_layers :
              LET W == fully_connected_layers[i].W
                  B == fully_connected_layers[i].B
              IN  /\ ret.out[i + 1].I = W.I
                  /\ ret.out[i + 1].J = 1
                  /\ Load(heap, ret.out[i + 1]) =
                        DSigmoid(W.I, 1,
                            DAdd(W.I, 1,
                                DProduct(W.I, W.J, 1, Load(heap, W),
                                         Load(heap, ret.out[i])),
                                Load(heap, B)))
        /\ Load(heap, ret.out[nb_fully_connected_layers + 1])
             = ActualOutput(Load(heap, ret.X))

\* feedforward_complete returned on a two-layer network that was trained
\* before.
C7_Witness ==
    /\ status = "ok"
    /\ pc = "idle"
    /\ ret.op = "feedforward_complete"
    /\ layers = <<1, 2, 1>>
    /\ Len(ret.out) = 3
    /\ Len(hist) >= 1
    /\ Params # hist[1].old

\* C8: backpropagation returns one weight gradient and one bias gradient
\* per layer, in layer order, gradient k of the shape of layer k's W and B,
\* which is the shape of the sums SGD_batch adds them to.
C8_GradientShapes ==
    (status = "ok" /\ pc = "sgd_sum") =>
        /\ Len(fr.delta_nabla.first) = nb_fully_connected_layers
        /\ Len(fr.delta_nabla.second) = nb_fully_connected_layers
        /\ \A k \in 1..nb_fully_connected_layers :
              /\ SameShape(fr.delta_nabla.first[k], fully_connected_layers[k].W)
              /\ SameShape(fr.delta_nabla.second[k], fully_connected_layers[k].B)
              /\ SameShape(fr.delta_nabla.first[k], fr.nabla_CW[k])
              /\ SameShape(fr.delta_nabla.second[k], fr.nabla_CB[k])
              /\ HasShape(heap, fr.delta_nabla.first[k])
              /\ HasShape(heap, fr.delta_nabla.second[k])
              /\ HasShape(heap, fr.nabla_CW[k])
              /\ HasShape(heap, fr.nabla_CB[k])

\* The second example of a batch was backpropagated in a two-layer network
\* and its gradients wait to be summed.
C8_Witness ==
    /\ status = "ok"
    /\ pc = "sgd_sum"
    /\ layers = <<1, 2, 1>>
    /\ fr.i = 1
    /\ Len(fr.delta_nabla.first) = 2
    /\ fr.delta_nabla.first[1].I = 2
    /\ fr.delta_nabla.first[2].J = 2

RECURSIVE RPow(_, _)
RPow(a, m) == IF m = 0 THEN One ELSE RMul(RPow(a, m - 1), a)

\* The last m calls of hist had the same alpha > 0, eta > 0 and
\* training_set_len, and only zero gradients.
ZeroGradientRun(m) ==
    /\ m \in 1..Len(hist)
    /\ \A c \in (Len(hist) - m + 1)..Len(hist) :
          /\ hist[c].zero
          /\ hist[c].alpha = hist[Len(hist)].alpha
          /\ hist[c].eta = hist[Len(hist)].eta
          /\ hist[c].training_set_len = hist[Len(hist)].training_set_len
          /\ IsFinite(hist[c].alpha) /\ hist[c].alpha.n > 0
          /\ IsFinite(hist[c].eta) /\ hist[c].eta.n > 0

\* C9: after m SGD_batch calls in a row with the same alpha > 0, eta > 0 and
\* N whose examples all had zero gradients in all layers, every weight is
\* its value of before those calls times (1 - alpha*eta/N)^m and every bias
\* is what it was (m = 1: one call scales W by the factor and leaves B).
C9_PureDecay ==
    (status = "ok" /\ pc = "idle") =>
        \A m \in 1..Len(hist) :
            ZeroGradientRun(m) =>
                \A k \in 1..nb_fully_connected_layers :
                    LET W == fully_connected_layers[k].W
                        B == fully_connected_layers[k].B
                        W0 == hist[Len(hist) - m + 1].old[W.p].d
                        B0 == hist[Len(hist) - m + 1].old[B.p].d
                    IN  /\ Load(heap, W) =
                              DScale(W.I, W.J, W0,
                                     RPow(DecayFactor(hist[Len(hist)]), m))
                        /\ Load(heap, B) = B0

\* Two zero-gradient calls in a row with decay, on a two-layer network with
\* nonzero weights and biases.
C9_Witness ==
    /\ Returned
    /\ layers = <<1, 2, 1>>
    /\ ZeroGradientRun(2)
    /\ DecayFactor(hist[2]) = R(3, 4)
    /\ Params # hist[1].old
    /\ ~IsZeroMatrix(Load(heap, fully_connected_layers[1].W))
    /\ ~IsZeroMatrix(Load(heap, fully_connected_layers[1].B))

\* The buffers of the sums and of the examples' gradients of the call f.
GradientBuffers(f) ==
    { f.nabla_CW[k].p : k \in DOMAIN f.nabla_CW }
        \cup { f.nabla_CB[k].p : k \in DOMAIN f.nabla_CB }
        \cup UNION { f.deltas[e].p : e \in DOMAIN f.deltas }

\* C10: when SGD_batch returns, every buffer of a sum and of an example's
\* weight or bias gradient has been released exactly once, there is one
\* such buffer per layer and kind for the sums and for each example, and no
\* buffer of a layer or of the caller's batch has been released.
C10_GradientsReleased ==
    Returned =>
        /\ \A p \in GradientBuffers(ret) :
              /\ p > ret.base
              /\ ~heap.c[p].live
              /\ heap.c[p].frees = 1
        /\ Cardinality(GradientBuffers(ret))
             = 2 * nb_fully_connected_layers * (Len(ret.deltas) + 1)
        /\ \A p \in 1..ret.base :
              heap.c[p].live /\ heap.c[p].frees = 0

\* A call on two examples returned in a two-layer network: twelve gradient
\* buffers, six layer and batch buffers.
C10_Witness ==
    /\ Returned
    /\ layers = <<1, 2, 1>>
    /\ Len(ret.deltas) = 2
    /\ Cardinality(GradientBuffers(ret)) = 12
    /\ ret.base = 8

\* Every weight and bias the file was written from is finite.
SavedFinite ==
    \A p \in DOMAIN ret.saved :
        \A i \in DOMAIN ret.saved[p].d :
            \A j \in DOMAIN ret.saved[p].d[i] : IsFinite(ret.saved[p].d[i][j])

\* C11: save followed by load of the same file restores the network: the
\* loaded network has the layer sizes of the saved one and every weight and
\* bias entry of every layer is the entry saved from that layer, row and
\* column (stated for a saved network of finite weights and biases).
C11_SaveLoadRestores ==
    (status = "ok" /\ pc = "loaded" /\ SavedFinite) =>
        /\ layers = ret.layers
        /\ \A p \in 1..Persistent(nb_fully_connected_layers) :
              heap.c[p].d = ret.saved[p].d

\* A[k], k = 0..L, for the input x: A[0] = x, A[k] = sigmoid(W*A[k-1] + B)
\* with the W and B of layer k (1-based) as the heap holds them.
RECURSIVE ActivationOf(_, _)
ActivationOf(x, k) ==
    IF k = 0 THEN x
    ELSE Let(fully_connected_layers[k].W, LAMBDA W :
         Let(ActivationOf(x, k - 1), LAMBDA a :
             DSigmoid(W.I, 1,
                 DAdd(W.I, 1, DProduct(W.I, W.J, 1, Load(heap, W), a),
                      Load(heap, fully_connected_layers[k].B)))))

\* The error of layer k (1-based, k = 1..L) for the example (x, y):
\* A[L] - y for the output layer, else
\* (transpose(W of layer k+1) * error of layer k+1) o (A[k] o (1 - A[k])).
RECURSIVE ErrorOf(_, _, _)
ErrorOf(x, y, k) ==
    Let(fully_connected_layers[k].W, LAMBDA W :
    Let(ActivationOf(x, k), LAMBDA a :
        IF k = nb_fully_connected_layers THEN DSub(W.I, 1, a, y)
        ELSE Let(fully_connected_layers[k + 1].W, LAMBDA Wn :
             Let(ErrorOf(x, y, k + 1), LAMBDA dn :
                 DHadamard(W.I, 1,
                     DProduct(Wn.J, Wn.I, 1,
                              DTranspose(Wn.I, Wn.J, Load(heap, Wn)), dn),
                     DHadamard(W.I, 1, a,
                         DSub(W.I, 1, DConst(W.I, 1, One), a)))))))

Pos(H, op, p) == { n \in DOMAIN H.log : H.log[n] = <<op, p>> }

\* The buffers the operation created, in the order of their creation.
News(H) == SelectSeq(H.log, LAMBDA e : e[1] = "new")

\* How many of the buffers the operation created are live after log entry n.
LiveAfter(H, n) ==
    Cardinality({ a \in 1..n : /\ H.log[a][1] = "new"
                               /\ \A f \in (a + 1)..n :
                                      H.log[f] # <<"free", H.log[a][2]>> })

\* Activation k of a feedforward call that has returned: the caller's input
\* for k = 0, the k-th buffer the call created otherwise.
FeedforwardActivation(k) == IF k = 0 THEN ret.X.p ELSE News(heap)[k][2]

\* C13: when feedforward returns from a network of L layers, each activation
\* 1..L-1 has been released exactly once, after the last write of the next
\* activation and before the buffer of the one after that is created, and
\* was not touched afterwards; at no point of the call more than two of the
\* buffers it created were live; the caller's input and the returned output
\* have not been released.
C13_FeedforwardReleases ==
    (Idle /\ ret.op = "feedforward") =>
        \E L \in {nb_fully_connected_layers} :
            /\ Len(News(heap)) = L
            /\ ret.out.p = FeedforwardActivation(L)
            /\ \A k \in 1..(L - 1) :
                  \E p \in {FeedforwardActivation(k)} :
                      /\ Cardinality(Pos(heap, "free", p)) = 1
                      /\ heap.c[p].frees = 1
                      /\ \A f \in Pos(heap, "free", p) :
                            /\ Pos(heap, "write", FeedforwardActivation(k + 1)) # {}
                            /\ \A w \in Pos(heap, "write",
                                         FeedforwardActivation(k + 1)) : w < f
                            /\ \A n \in (f + 1)..Len(heap.log) :
                                  heap.log[n][2] # p
                            /\ k + 2 <= L =>
                                  \A a \in Pos(heap, "new",
                                         FeedforwardActivation(k + 2)) : f < a
            /\ \A n \in DOMAIN heap.log : LiveAfter(heap, n) <= 2
            /\ \A k \in {0, L} :
                  /\ Pos(heap, "free", FeedforwardActivation(k)) = {}
                  /\ heap.c[FeedforwardActivation(k)].live
                  /\ heap.c[FeedforwardActivation(k)].frees = 0

\* feedforward has returned from a network of three layers, with both
\* intermediate activations released and the output live.
C13_Witness ==
    /\ Idle
    /\ ret.op = "feedforward"
    /\ nb_fully_connected_layers = 3
    /\ ~heap.c[FeedforwardActivation(1)].live
    /\ ~heap.c[FeedforwardActivation(2)].live
    /\ heap.c[ret.out.p].live

\* The log entries of the backpropagation that has just returned.
BackpropagationSteps == (fr.deltas[Len(fr.deltas)].from + 1)..Len(heap.log)

\* The buffer of activation k of that backpropagation's trace.
TraceActivation(k) == fr.deltas[Len(fr.deltas)].activations[k + 1]

\* C14: when backpropagation_cross_entropy returns in a network of L >= 1
\* layers, every activation 1..L of its trace has been released exactly
\* once, after every read of it, nothing has touched it since, and the
\* releases came in the order L, L-1, ..., 1, the last one ending the
\* call; activation 0, the caller's training input, has not been released.
C14_BackpropagationReleases ==
    (status = "ok" /\ pc = "sgd_sum") =>
        \E L \in {nb_fully_connected_layers} :
            /\ L >= 1
            /\ \A k \in 1..L :
                  \E p \in {TraceActivation(k)} :
                      /\ Cardinality(Pos(heap, "free", p)) = 1
                      /\ heap.c[p].frees = 1
                      /\ Pos(heap, "free", p) \subseteq BackpropagationSteps
                      /\ Pos(heap, "read", p) # {}
                      /\ \A f \in Pos(heap, "free", p) :
                            /\ \A n \in (f + 1)..Len(heap.log) :
                                  heap.log[n][2] # p
                            /\ k < L =>
                                  \A g \in Pos(heap, "free",
                                                TraceActivation(k + 1)) : g < f
                            /\ k = 1 => f = Len(heap.log)
            /\ Pos(heap, "free", TraceActivation(0)) = {}
            /\ heap.c[TraceActivation(0)].live
            /\ heap.c[TraceActivation(0)].frees = 0

\* A backpropagation has returned in a network of three layers: the three
\* activations it computed are released, the training input is live.
C14_Witness ==
    /\ status = "ok"
    /\ pc = "sgd_sum"
    /\ nb_fully_connected_layers = 3
    /\ \A k \in 1..3 : ~heap.c[TraceActivation(k)].live
    /\ heap.c[TraceActivation(0)].live
    /\ TraceActivation(0) = fr.batch_input[fr.i + 1].p

\* The number of passes of a loop `for(i = 0; i < n; i++)`.
Passes(n) == IF n < 0 THEN 0 ELSE n

\* The SGD_batch frame in progress or, after the return, the one returned.
SGDFrame == IF fr # NoFrame THEN fr ELSE ret

\* C15: in an SGD_batch call, the e-th backpropagation is the one of input
\* e-1 with output e-1 (0-based), no index at or beyond batch_len is used,
\* and when the first loop is over there has been one backpropagation for
\* each of the indices 0..batch_len-1; the call comes to read
\* batch_input[i] with i at or past the end of the sequence only for an
\* i < batch_len, and with a batch_len greater than the length of the
\* sequences it never gets past the first loop.
C15_BatchLoop ==
    \E f \in {SGDFrame} :
        f.op = "SGD_batch" =>
            /\ Len(f.deltas) <= Passes(f.batch_len)
            /\ \A e \in DOMAIN f.deltas :
                  /\ e <= Len(f.batch_input)
                  /\ f.deltas[e].x = f.batch_input[e]
                  /\ f.deltas[e].y = f.batch_output[e]
            /\ pc = "sgd_loop" => Len(f.deltas) = f.i
            /\ pc = "sgd_sum" => Len(f.deltas) = f.i + 1
            /\ pc \in {"sgd_update", "idle"} =>
                  /\ Len(f.deltas) = Passes(f.batch_len)
                  /\ f.batch_len <= Len(f.batch_input)
            /\ (status = "undefined" /\ nb_fully_connected_layers >= 1) =>
                  /\ f.i = Len(f.batch_input)
                  /\ f.i < f.batch_len
                  /\ Len(f.deltas) = Len(f.batch_input)

\* An SGD_batch call has returned after the backpropagation of two examples
\* held in different buffers.
C15_Witness ==
    /\ Idle
    /\ ret.op = "SGD_batch"
    /\ ret.batch_len = 2
    /\ Len(ret.deltas) = 2
    /\ ret.deltas[1].x.p # ret.deltas[2].x.p
    /\ ret.deltas[1].y.p # ret.deltas[2].y.p

\* Layers k and m of the network have the same node count and the same
\* predecessor node count.
SameLayerShape(k, m) ==
    /\ fully_connected_layers[k].nb_nodes = fully_connected_layers[m].nb_nodes
    /\ PreviousNodes(input, fully_connected_layers, k - 1)
           = PreviousNodes(input, fully_connected_layers, m - 1)

====
